---- MODULE Spec2Model ----
(***************************************************************************)
(* VR-Hass-Power: a watcher thread polls the process table for the VR      *)
(* process and sends (VRState, initial) updates over an mpsc channel; the  *)
(* main thread receives them and turns a Home Assistant entity on or off,  *)
(* waiting up to config.power.delay seconds after the process exits.       *)
(***************************************************************************)
EXTENDS Integers, Sequences, FiniteSets, TLC

\* ---------------------------------------------------------------- bounds
\* Number of polls of the loop (after the initial one) that are explored.
MaxPolls == 2
\* config.power.delay ranges over 0..MaxDelay (seconds, one tick each).
MaxDelay == 1
\* config.check.interval ranges over 0..MaxInterval.
MaxInterval == 1

\* Process ids that the process table may hold.
Pids == {1, 2}

\* ---------------------------------------------------------------- VRState
NotRunning == [tag |-> "NotRunning", pid |-> 0]
Running(pid) == [tag |-> "Running", pid |-> pid]
VRState == {NotRunning} \cup {Running(p) : p \in Pids}

\* What one refresh_processes() makes visible: the pids that exist and the
\* pid get_process_by_name(..).first() yields (0 when no process has the name).
Tables == {t \in [first : {0} \cup Pids, alive : SUBSET Pids] :
             t.first # 0 => t.first \in t.alive}

VARIABLES
  interval,   \* config.check.interval
  delay,      \* config.power.delay
  wpc,        \* watcher thread: "start", "poll", "sleep", "dead"
  state,      \* the watcher's `state`
  old_state,  \* the watcher's `old_state` of the last loop iteration
  system,     \* the process list held by sysinfo::System since the last refresh
  sincePoll,  \* seconds since the last refresh, counted up to the interval
  sleepLeft,  \* seconds left of the watcher's thread::sleep
  queue,      \* the mpsc channel's buffered messages
  pc,         \* main thread: "recv", "cmd", "wait", "panicked"
  waited,     \* seconds elapsed of the pending recv_timeout
  emitted,    \* history: every message sent by the watcher
  samples,    \* history: by-name state of the table at every poll
  gaps,       \* history: seconds (up to the interval) before every loop poll
  stable,     \* history: no pid changed hands between two consecutive polls
  consumed,   \* history: every message received by main, and where
  cmds,       \* history: every set_entity_state call started
  results,    \* history: result of every set_entity_state call finished
  waits       \* history: every recv_timeout call and how it ended

vars == <<interval, delay, wpc, state, old_state, system, sincePoll, sleepLeft,
          queue, pc, waited, emitted, samples, gaps, stable, consumed, cmds,
          results, waits>>

watcherVars == <<wpc, state, old_state, system, sincePoll, sleepLeft, emitted,
                 samples, gaps, stable>>
mainVars == <<pc, waited, consumed, cmds, results, waits>>
configVars == <<interval, delay>>

\* ---------------------------------------------------------------- watcher
get_initial_state(t) == IF t.first # 0 THEN Running(t.first) ELSE NotRunning

PollStateByName(s, t) == get_initial_state(t)

PollStateRescan(s, t) ==
  IF s = NotRunning \/ s.pid \notin t.alive THEN get_initial_state(t) ELSE s

PollStateSticky(s, t) ==
  IF s = NotRunning
    THEN (IF t.first # 0 THEN Running(t.first) ELSE s)
    ELSE s

\* The match on `state` inside the polling loop.
PollState(s, t) ==
  IF s = NotRunning
    THEN (IF t.first # 0 THEN Running(t.first) ELSE s)
    ELSE (IF s.pid \notin t.alive THEN NotRunning ELSE s)

ShouldSendAlways(s, old) == TRUE

\* "Only send updates on changes."
ShouldSend(s, old) == s # old

\* A pid seen under the name at one poll is, at the next poll, either still
\* the pid the name resolves to or gone together with the name.
NoChurn(prev, t) ==
  prev # NotRunning =>
    IF prev.pid \in t.alive THEN t.first = prev.pid ELSE t.first = 0

Msg(s, initial) == [state |-> s, initial |-> initial]

SendFront(q, m) == <<m>> \o q

\* tx.send(..): the message joins the channel's buffer behind the others.
Send(q, m) == Append(q, m)

\* tx.send((state, true)): the message of the initial state.
InitialMsg(s) == Msg(s, TRUE)

UpdateMsgInitial(s) == Msg(s, TRUE)

\* tx.send((state, false)): the message of a change.
UpdateMsg(s) == Msg(s, FALSE)

Init ==
  /\ interval \in 0..MaxInterval
  /\ delay \in 0..MaxDelay
  /\ wpc = "start"
  /\ state = NotRunning
  /\ old_state = NotRunning
  /\ system = [first |-> 0, alive |-> {}]
  /\ sincePoll = 0
  /\ sleepLeft = 0
  /\ queue = <<>>
  /\ pc = "recv"
  /\ waited = 0
  /\ emitted = <<>>
  /\ samples = <<>>
  /\ gaps = <<>>
  /\ stable = TRUE
  /\ consumed = <<>>
  /\ cmds = <<>>
  /\ results = <<>>
  /\ waits = <<>>

\* The process is gone once main has panicked.
Alive == pc # "panicked"

\* get_initial_state and the unconditional first send.
WatcherInit ==
  /\ Alive
  /\ wpc = "start"
  /\ \E t \in Tables :
       LET s == get_initial_state(t) IN
       /\ system' = t
       /\ state' = s
       /\ queue' = Send(queue, InitialMsg(s))
       /\ emitted' = Append(emitted, InitialMsg(s))
       /\ samples' = Append(samples, get_initial_state(t))
  /\ wpc' = "poll"
  /\ sincePoll' = 0
  /\ UNCHANGED <<old_state, sleepLeft, gaps, stable, mainVars, configVars>>

\* One iteration of the loop, up to the call of thread::sleep, when the
\* refresh yields the process list t.
PollStep(t) ==
  LET s == PollState(state, t) IN
  /\ old_state' = state
  /\ system' = t
  /\ state' = s
  /\ IF ShouldSend(s, state)
       THEN /\ queue' = Send(queue, UpdateMsg(s))
            /\ emitted' = Append(emitted, UpdateMsg(s))
       ELSE UNCHANGED <<queue, emitted>>
  /\ sincePoll' = 0
  /\ wpc' = "sleep"
  /\ sleepLeft' = interval

\* An iteration of the loop that finds any process list.
WatcherPoll ==
  /\ Alive
  /\ wpc = "poll"
  /\ Len(samples) <= MaxPolls
  /\ \E t \in Tables :
       /\ PollStep(t)
       /\ samples' = Append(samples, get_initial_state(t))
       /\ stable' = (stable /\ NoChurn(samples[Len(samples)], t))
  /\ gaps' = Append(gaps, sincePoll)
  /\ UNCHANGED <<mainVars, configVars>>

\* The iterations after those: the refresh finds the process list as it was
\* at the iteration before.
WatcherSteadyPoll ==
  /\ Alive
  /\ wpc = "poll"
  /\ Len(samples) > MaxPolls
  /\ PollStep(system)
  /\ UNCHANGED <<samples, gaps, stable, mainVars, configVars>>

WatcherWakeEarly ==
  /\ Alive
  /\ wpc = "sleep"
  /\ wpc' = "poll"
  /\ sleepLeft' = 0
  /\ UNCHANGED <<state, old_state, system, sincePoll, queue,
                 emitted, samples, gaps, stable, mainVars, configVars>>

\* thread::sleep returns once the interval has passed.
WatcherWake ==
  /\ Alive
  /\ wpc = "sleep"
  /\ sleepLeft = 0
  /\ wpc' = "poll"
  /\ UNCHANGED <<state, old_state, system, sincePoll, sleepLeft, queue,
                 emitted, samples, gaps, stable, mainVars, configVars>>

\* A panic in the watcher thread (lock().unwrap(), the process-table
\* refresh): the thread ends and its Sender is dropped.
WatcherDie ==
  /\ Alive
  /\ wpc \in {"start", "poll"}
  /\ wpc' = "dead"
  /\ UNCHANGED <<state, old_state, system, sincePoll, sleepLeft, queue,
                 emitted, samples, gaps, stable, mainVars, configVars>>

\* ---------------------------------------------------------------- channel
\* The Sender lives exactly as long as the watcher thread.
Disconnected == wpc = "dead"

Ok(m) == [ok |-> TRUE, msg |-> m, err |-> "none"]
Err(e) == [ok |-> FALSE, msg |-> Msg(NotRunning, FALSE), err |-> e]

\* ---------------------------------------------------------------- main
MainDecisionNoInitial(m) ==
  IF m.state # NotRunning THEN "On" ELSE "Wait"

MainDecisionOnlyInitial(m) ==
  IF ~m.initial THEN "Wait"
  ELSE IF m.state # NotRunning THEN "On"
  ELSE "Off"

\* The outer match on the received (state, initial): the command to issue,
\* or "Wait" for the recv_timeout arm.
MainDecision(m) ==
  IF m.state # NotRunning THEN "On"
  ELSE IF m.initial THEN "Off"
  ELSE "Wait"

WaitDecisionAlwaysOff(r) == "Off"

WaitDecisionSkipOnErr(r) ==
  IF r.ok /\ r.msg.state = NotRunning THEN "Off" ELSE "Skip"

\* The inner match on the result of recv_timeout:
\* Ok((NotRunning, _)) | Err(_) turns the devices off, anything else does not.
WaitDecision(r) ==
  IF r.ok /\ r.msg.state = NotRunning THEN "Off"
  ELSE IF ~r.ok THEN "Off"
  ELSE "Skip"

\* ev: the number of the received message the call belongs to.
Cmd(kind, cause, ev) ==
  [kind |-> kind, cause |-> cause, ev |-> ev, waited |-> waited]

IssueAsync(kind, cause, ev) ==
  /\ cmds' = Append(cmds, Cmd(kind, cause, ev))
  /\ pc' = "recv"

\* Start a set_entity_state call.
Issue(kind, cause, ev) ==
  /\ cmds' = Append(cmds, Cmd(kind, cause, ev))
  /\ pc' = "cmd"

\* updates.recv() returns a message, and the outer match runs up to the
\* next blocking call.
MainRecv ==
  /\ pc = "recv"
  /\ queue # <<>>
  /\ LET m == Head(queue)
         d == MainDecision(m) IN
     /\ queue' = Tail(queue)
     /\ consumed' = Append(consumed, [state |-> m.state, initial |-> m.initial,
                                      at |-> "main"])
     /\ IF d = "Wait"
          THEN /\ pc' = "wait"
               /\ waited' = 0
               /\ waits' = Append(waits, [ev |-> Len(consumed) + 1, end |-> "pending"])
               /\ UNCHANGED cmds
          ELSE /\ Issue(d, "main", Len(consumed) + 1)
               /\ UNCHANGED <<waited, waits>>
  /\ UNCHANGED <<results, watcherVars, configVars>>

MainRecvBlocks ==
  /\ pc = "recv"
  /\ queue = <<>>
  /\ Disconnected
  /\ UNCHANGED vars

\* updates.recv() on an empty channel whose Sender is gone: unwrap() panics.
MainRecvDisconnected ==
  /\ pc = "recv"
  /\ queue = <<>>
  /\ Disconnected
  /\ pc' = "panicked"
  /\ UNCHANGED <<queue, waited, consumed, cmds, results, waits,
                 watcherVars, configVars>>

AfterCmdSwallow(ok) == "recv"

\* expect() on the result of set_entity_state: go on, or panic.
AfterCmd(ok) == IF ok THEN "recv" ELSE "panicked"

\* set_entity_state returns; expect() panics on an error.
CmdDone ==
  /\ pc = "cmd"
  /\ \E ok \in BOOLEAN :
       /\ results' = Append(results, [ok |-> ok, consumed |-> Len(consumed)])
       /\ pc' = AfterCmd(ok)
  /\ UNCHANGED <<queue, waited, consumed, cmds, waits, watcherVars, configVars>>

EndWait(how) ==
  waits' = [waits EXCEPT ![Len(waits)].end = how]

AfterWaitTurnOn(r, cause, ev) ==
  IF WaitDecision(r) = "Off"
    THEN Issue("Off", cause, ev)
    ELSE Issue("On", cause, ev)

AfterWaitAgain(r, cause, ev) ==
  IF WaitDecision(r) = "Off"
    THEN Issue("Off", cause, ev)
    ELSE /\ pc' = "wait"
         /\ UNCHANGED cmds

\* The inner match, given the result r of recv_timeout.
AfterWait(r, cause, ev) ==
  IF WaitDecision(r) = "Off"
    THEN Issue("Off", cause, ev)
    ELSE /\ pc' = "recv"
         /\ UNCHANGED cmds

\* recv_timeout returns a message (a buffered message wins over the deadline).
WaitRecv ==
  /\ pc = "wait"
  /\ queue # <<>>
  /\ LET m == Head(queue) IN
     /\ queue' = Tail(queue)
     /\ consumed' = Append(consumed, [state |-> m.state, initial |-> m.initial,
                                      at |-> "wait"])
     /\ EndWait("event")
     /\ AfterWait(Ok(m), "wait_event", Len(consumed) + 1)
  /\ UNCHANGED <<waited, results, watcherVars, configVars>>

\* recv_timeout returns Err(Timeout): the delay has passed with nothing buffered.
WaitTimeout ==
  /\ pc = "wait"
  /\ queue = <<>>
  /\ ~Disconnected
  /\ waited >= delay
  /\ EndWait("timeout")
  /\ AfterWait(Err("Timeout"), "timeout", Len(consumed))
  /\ UNCHANGED <<queue, waited, consumed, results, watcherVars, configVars>>

\* recv_timeout returns Err(Disconnected): nothing buffered and the Sender is
\* gone; this does not wait for the deadline.
WaitDisconnected ==
  /\ pc = "wait"
  /\ queue = <<>>
  /\ Disconnected
  /\ EndWait("disconnected")
  /\ AfterWait(Err("Disconnected"), "disconnected", Len(consumed))
  /\ UNCHANGED <<queue, waited, consumed, results, watcherVars, configVars>>

\* ---------------------------------------------------------------- time
\* One second passes for thread::sleep and for recv_timeout.
Tick ==
  /\ Alive
  /\ \/ wpc = "sleep" /\ sleepLeft > 0
     \/ pc = "wait" /\ waited < delay
     \/ wpc \in {"poll", "sleep"} /\ sincePoll < interval
  /\ sleepLeft' = IF wpc = "sleep" /\ sleepLeft > 0 THEN sleepLeft - 1 ELSE sleepLeft
  /\ waited' = IF pc = "wait" /\ waited < delay THEN waited + 1 ELSE waited
  /\ sincePoll' = IF wpc \in {"poll", "sleep"} /\ sincePoll < interval
                    THEN sincePoll + 1 ELSE sincePoll
  /\ UNCHANGED <<wpc, state, old_state, system, queue, pc, emitted, samples,
                 gaps, stable, consumed, cmds, results, waits, configVars>>

Next ==
  \/ WatcherInit
  \/ WatcherPoll
  \/ WatcherSteadyPoll
  \/ WatcherWake
  \/ WatcherDie
  \/ MainRecv
  \/ MainRecvDisconnected
  \/ CmdDone
  \/ WaitRecv
  \/ WaitTimeout
  \/ WaitDisconnected
  \/ Tick

Spec == Init /\ [][Next]_vars

\* Both threads keep running and time keeps passing: every step of the
\* watcher thread and of main that can be taken is taken eventually. A panic
\* of the watcher thread is never bound to happen.
Fairness ==
  /\ WF_vars(WatcherInit)
  /\ WF_vars(WatcherPoll)
  /\ WF_vars(WatcherSteadyPoll)
  /\ WF_vars(WatcherWake)
  /\ WF_vars(MainRecv)
  /\ WF_vars(MainRecvDisconnected)
  /\ WF_vars(CmdDone)
  /\ WF_vars(WaitRecv)
  /\ WF_vars(WaitTimeout)
  /\ WF_vars(WaitDisconnected)
  /\ WF_vars(Tick)

SpecFair == Spec /\ Fairness

\* ---------------------------------------------------------------- properties
\* The calls of set_entity_state that belong to received message i (for a
\* timeout, the message that started the wait).
CmdsOf(i, kind) == {k \in 1..Len(cmds) : cmds[k].ev = i /\ cmds[k].kind = kind}

IsAbsentUpdate(i) ==
  /\ consumed[i].at = "main"
  /\ consumed[i].state = NotRunning
  /\ ~consumed[i].initial

\* Message i started a wait and message i+1, a Running one, ended it.
Restarted(i) ==
  /\ i + 1 <= Len(consumed)
  /\ IsAbsentUpdate(i)
  /\ consumed[i + 1].at = "wait"
  /\ consumed[i + 1].state # NotRunning

\* C1 as stated: when a (NotRunning, false) received by recv() is followed,
\* inside recv_timeout, by a Running message, the window holds no turn-off
\* call and exactly one turn-on call.
C1_RestartTurnsOnOnce ==
  \A i \in 1..Len(consumed) :
    Restarted(i) =>
      /\ CmdsOf(i, "Off") \cup CmdsOf(i + 1, "Off") = {}
      /\ Cardinality(CmdsOf(i, "On") \cup CmdsOf(i + 1, "On")) = 1

\* C1 amended: when a (NotRunning, false) received by recv() is followed,
\* inside recv_timeout, by a Running message, no set_entity_state call at all
\* is made in that window: neither a turn-off nor a turn-on.
C1_RestartIssuesNothing ==
  \A i \in 1..Len(consumed) :
    Restarted(i) =>
      /\ CmdsOf(i, "Off") \cup CmdsOf(i + 1, "Off") = {}
      /\ CmdsOf(i, "On") \cup CmdsOf(i + 1, "On") = {}

\* A restart was seen inside the wait and main is back in recv().
C1_Witness ==
  /\ pc = "recv"
  /\ Len(consumed) >= 2
  /\ Restarted(Len(consumed) - 1)

\* C2 as stated: a wait that ends without a message ends in exactly one
\* turn-off call, made no earlier than `delay` seconds into the wait.
C2_TurnOffNotBeforeDelay ==
  \A w \in 1..Len(waits) :
    waits[w].end \in {"timeout", "disconnected"} =>
      /\ Cardinality(CmdsOf(waits[w].ev, "Off")) = 1
      /\ \A k \in CmdsOf(waits[w].ev, "Off") : cmds[k].waited >= delay

\* C3: a set_entity_state call is made only after the initial message was
\* received; the first call belongs to that message, is made straight from the
\* outer match with no wait before it, and is turn-on when the initial poll
\* found the process and turn-off when it did not.
C3_FirstCommandFollowsInitialState ==
  /\ cmds # <<>> =>
       /\ consumed # <<>>
       /\ consumed[1].initial
       /\ cmds[1].ev = 1
       /\ cmds[1].cause = "main"
       /\ cmds[1].kind = (IF samples[1] # NotRunning THEN "On" ELSE "Off")
  /\ consumed # <<>> =>
       /\ cmds # <<>>
       /\ \A w \in 1..Len(waits) : waits[w].ev # 1

\* The initial poll found nothing and the turn-off call has been made.
C3_Witness ==
  /\ samples # <<>>
  /\ samples[1] = NotRunning
  /\ cmds # <<>>
  /\ cmds[1].kind = "Off"
  /\ delay > 0

\* C4 as stated: every received Running message, wherever it is received,
\* has exactly one turn-on call.
C4_EveryRunningTurnsOn ==
  \A i \in 1..Len(consumed) :
    consumed[i].state # NotRunning => Cardinality(CmdsOf(i, "On")) = 1

\* C4 amended: every Running message received by recv() (initial or not) has
\* exactly one turn-on call, made before the next message is received; a
\* Running message received by recv_timeout has no call at all.
C4_RunningTurnsOnInMainReceive ==
  \A i \in 1..Len(consumed) :
    consumed[i].state # NotRunning =>
      /\ CmdsOf(i, "Off") = {}
      /\ Cardinality(CmdsOf(i, "On")) = (IF consumed[i].at = "main" THEN 1 ELSE 0)

\* A Running update (not the initial message) was received by recv() after a
\* timed-out wait, and its turn-on call was made.
C4_Witness ==
  /\ Len(consumed) >= 3
  /\ consumed[Len(consumed)].state # NotRunning
  /\ consumed[Len(consumed)].at = "main"
  /\ ~consumed[Len(consumed)].initial
  /\ cmds[Len(cmds)].ev = Len(consumed)
  /\ cmds[Len(cmds)].kind = "On"

Kinds(cs) == [k \in 1..Len(cs) |-> cs[k].kind]

\* The messages (Running, true), (NotRunning, false), (Running, false) were
\* received, the third inside the wait started by the second.
RestartScenario ==
  /\ Len(consumed) = 3
  /\ consumed[1].state # NotRunning /\ consumed[1].initial
  /\ Restarted(2)
  /\ ~consumed[3].initial

\* C5: for the messages (Running, true), (NotRunning, false),
\* (Running, false), the third received before the wait started by the second
\* ran out, the calls made are exactly one turn-on.
C5_RestartScenarioOnlyTurnsOn ==
  RestartScenario => Kinds(cmds) = <<"On">>

\* The scenario has run to the end: main is back in recv().
C5_Witness ==
  /\ RestartScenario
  /\ pc = "recv"
  /\ delay > 0
  /\ queue = <<>>

\* The messages a sequence of per-poll states calls for: the first state as
\* the initial message, then one message at every place where the state
\* differs from the one before it.
Changes(seq) ==
  LET idx == SelectSeq([i \in 1..Len(seq) |-> i],
                       LAMBDA i : i = 1 \/ seq[i] # seq[i - 1])
  IN [k \in 1..Len(idx) |-> Msg(seq[idx[k]], idx[k] = 1)]

\* C6 as stated: for every sequence of by-name samples, pid changes between
\* two polls included, the messages sent are the initial one plus one per
\* contiguous run of identical samples.
C6_OneEventPerSampleRun ==
  emitted = Changes(samples)

\* C6 amended: for every sequence of samples in which a pid found under the
\* name at one poll is at the next poll either still the pid found under the
\* name or gone together with the name (no restart under another pid and no
\* reuse of the pid between two consecutive polls), the messages sent are the
\* initial one plus one per contiguous run of identical samples, in order,
\* and a poll whose sample equals the previous one sends nothing.
C6_OneEventPerRunWithoutPidChurn ==
  stable => emitted = Changes(samples)

\* Three polls without pid churn, one of them repeating the sample before it
\* and one of them changing it.
C6_Witness ==
  /\ stable
  /\ Len(samples) >= 3
  /\ Len(emitted) >= 2
  /\ Len(emitted) < Len(samples)

\* C7: a failed set_entity_state call is the last thing the program does: it
\* is the last call made (no retry, no later call), no message is received
\* after it, and main ends in a panic.
C7_FailedCommandIsFatal ==
  \A k \in 1..Len(results) :
    ~results[k].ok =>
      /\ k = Len(results)
      /\ k = Len(cmds)
      /\ Len(consumed) = results[k].consumed
      /\ pc = "panicked"

\* A call failed while a message was still buffered in the channel.
C7_Witness ==
  /\ results # <<>>
  /\ ~results[Len(results)].ok
  /\ queue # <<>>

\* A message was received inside wait w.
EventWon(w) ==
  /\ waits[w].ev + 1 <= Len(consumed)
  /\ consumed[waits[w].ev + 1].at = "wait"

\* Wait w ran for the whole delay and ended without a message.
DeadlineWon(w) ==
  /\ ~EventWon(w)
  /\ \E k \in 1..Len(cmds) : cmds[k].ev = waits[w].ev /\ cmds[k].waited >= delay

\* The set_entity_state calls made by the inner match for wait w.
CmdsOfWait(w) ==
  {k \in 1..Len(cmds) :
     \/ cmds[k].ev = waits[w].ev
     \/ EventWon(w) /\ cmds[k].ev = waits[w].ev + 1}

\* C8 as stated: every wait that has ended has exactly one winner, a received
\* message or the elapsed deadline, and at most one set_entity_state call.
C8_ExactlyOneWinner ==
  \A w \in 1..Len(waits) :
    waits[w].end # "pending" =>
      /\ EventWon(w) \/ DeadlineWon(w)
      /\ Cardinality(CmdsOfWait(w)) <= 1

\* The number of recv_timeout calls started for received message i.
WaitsOf(i) == Cardinality({w \in 1..Len(waits) : waits[w].ev = i})

\* C9: recv_timeout is called exactly once for every (NotRunning, false)
\* received by recv() and for no other message; while it is pending it is the
\* only unfinished wait, it belongs to the last message received and no call
\* of set_entity_state has been made for that message, so it is never entered
\* again after a wait has ended or after a call.
C9_OneWaitPerAbsentUpdate ==
  /\ \A i \in 1..Len(consumed) :
       WaitsOf(i) = (IF IsAbsentUpdate(i) THEN 1 ELSE 0)
  /\ \A w \in 1..Len(waits) :
       waits[w].end = "pending" => (w = Len(waits) /\ pc = "wait")
  /\ pc = "wait" =>
       /\ waits # <<>>
       /\ waits[Len(waits)].end = "pending"
       /\ waits[Len(waits)].ev = Len(consumed)
       /\ CmdsOf(Len(consumed), "On") \cup CmdsOf(Len(consumed), "Off") = {}
  /\ pc = "cmd" => Len(cmds) = Len(results) + 1
  /\ pc = "recv" => Len(cmds) = Len(results)

\* A wait has ended by its deadline, its turn-off call is done, and the next
\* Running update has been handled from recv().
C9_Witness ==
  /\ pc = "recv"
  /\ Len(waits) = 1
  /\ waits[1].end = "timeout"
  /\ Len(consumed) = 3
  /\ delay > 0

\* C10: the first message sent has initial = true, every later one has
\* initial = false, and once the initial poll is done the initial message has
\* been sent, whatever the state found.
C10_InitialFlagOnlyOnFirstEvent ==
  /\ \A i \in 1..Len(emitted) : emitted[i].initial = (i = 1)
  /\ samples # <<>> => (emitted # <<>> /\ emitted[1].state = samples[1])

\* The initial message was NotRunning and an update followed it.
C10_Witness ==
  /\ Len(emitted) >= 2
  /\ emitted[1].state = NotRunning

\* The messages received so far, without the place of receipt.
Received == [i \in 1..Len(consumed) |-> Msg(consumed[i].state, consumed[i].initial)]

\* C11: the messages received by main (by recv() and by recv_timeout), followed
\* by the messages still buffered, are exactly the messages sent, in the order
\* sent: nothing is lost, duplicated or reordered.
C11_ReceivedIsPrefixOfSent ==
  emitted = Received \o queue

\* Two messages piled up in the channel during a set_entity_state call.
C11_Witness ==
  /\ Len(consumed) >= 1
  /\ pc = "cmd"
  /\ Len(queue) >= 2

PendingWaits == {w \in 1..Len(waits) : waits[w].end = "pending"}

\* C12: at most one set_entity_state call is unfinished and at most one
\* recv_timeout is pending, never both; no message is received while a call
\* is unfinished: every call ends with the same number of messages received
\* as when it was started.
C12_OneCommandOneWaitAtATime ==
  /\ Len(cmds) - Len(results) \in {0, 1}
  /\ Len(cmds) - Len(results) = 1 <=> pc = "cmd"
  /\ Cardinality(PendingWaits) <= 1
  /\ pc = "cmd" => (PendingWaits = {} /\ cmds[Len(cmds)].ev = Len(consumed))
  /\ \A k \in 1..Len(results) : results[k].consumed = cmds[k].ev

\* The turn-off call of a timed-out wait is unfinished while the watcher has
\* already sent the next message.
C12_Witness ==
  /\ pc = "cmd"
  /\ cmds[Len(cmds)].cause = "timeout"
  /\ queue # <<>>

\* C14: after every poll of the loop, the new state is: for an old state
\* Running(pid), NotRunning exactly when pid is not in the process list and
\* Running(pid) otherwise, whatever the lookup by name would give; for an old
\* state NotRunning, Running(p) exactly when the lookup by name gives p.
C14_AsymmetricLookup ==
  Len(samples) >= 2 =>
    IF old_state # NotRunning
      THEN /\ old_state.pid \notin system.alive <=> state = NotRunning
           /\ old_state.pid \in system.alive <=> state = old_state
      ELSE /\ system.first # 0 <=> state = Running(system.first)
           /\ system.first = 0 <=> state = NotRunning

\* The watched pid still exists while the name now belongs to another pid:
\* the state keeps the old pid.
C14_Witness ==
  /\ Len(samples) >= 2
  /\ old_state # NotRunning
  /\ system.first # 0
  /\ system.first # old_state.pid
  /\ state = old_state

\* C15 as stated: a full interval passes before every poll of the loop, the
\* first one (right after the initial poll) included.
C15_SleepBeforeEveryPoll ==
  \A i \in 1..Len(gaps) : gaps[i] >= interval

\* C15 amended: a full interval passes before every poll of the loop except
\* the first one, which follows the initial poll without any sleep; so an
\* update can be sent right after the initial message.
C15_SleepBetweenLoopPolls ==
  \A i \in 2..Len(gaps) : gaps[i] >= interval

\* With a non-zero interval, the first poll of the loop ran with no time
\* passed since the initial poll and sent an update; a second poll followed.
C15_Witness ==
  /\ interval > 0
  /\ Len(gaps) >= 2
  /\ gaps[1] = 0
  /\ Len(emitted) >= 2

\* C16: of every two consecutive messages sent, exactly one is NotRunning.
C16_EventsAlternate ==
  \A i \in 1..(Len(emitted) - 1) :
    (emitted[i].state = NotRunning) # (emitted[i + 1].state = NotRunning)

\* Running under one pid, then NotRunning, then Running under another pid.
C16_Witness ==
  /\ Len(emitted) >= 3
  /\ emitted[1].state # NotRunning
  /\ emitted[3].state # NotRunning
  /\ emitted[3].state # emitted[1].state

\* C17: a message received by recv_timeout is never NotRunning, so no
\* turn-off call is caused by a message received inside a wait.
C17_NoAbsentInsideWait ==
  /\ \A i \in 1..Len(consumed) :
       consumed[i].at = "wait" => consumed[i].state # NotRunning
  /\ \A k \in 1..Len(cmds) : cmds[k].cause # "wait_event"

\* A message was received inside a wait that had already run its full delay.
C17_Witness ==
  /\ consumed # <<>>
  /\ consumed[Len(consumed)].at = "wait"
  /\ delay > 0
  /\ waited >= delay

\* C18: whenever main is blocked in recv() with at least one message
\* received (so every call so far succeeded), the last call made is turn-on
\* if the last message received is Running and turn-off if it is NotRunning.
C18_DeviceFollowsLastEvent ==
  (pc = "recv" /\ consumed # <<>>) =>
    /\ cmds # <<>>
    /\ cmds[Len(cmds)].kind =
         (IF consumed[Len(consumed)].state # NotRunning THEN "On" ELSE "Off")

\* Back in recv() after a restart was absorbed by a wait: the last call is
\* the turn-on made two messages earlier.
C18_Witness ==
  /\ pc = "recv"
  /\ consumed # <<>>
  /\ consumed[Len(consumed)].at = "wait"
  /\ cmds[Len(cmds)].ev < Len(consumed) - 1

\* C13: once the watcher thread has died, main ends in a panic: it receives
\* what is buffered and then fails in recv(), wherever it was blocked when
\* the watcher died.
C13_WatcherDeathEndsMain ==
  (wpc = "dead") ~> (pc = "panicked")

\* The watcher died during a wait; main made the turn-off call, the call
\* succeeded, and main then panicked in recv().
C13_Witness ==
  /\ wpc = "dead"
  /\ pc = "panicked"
  /\ waits # <<>>
  /\ waits[Len(waits)].end = "disconnected"
  /\ results[Len(results)].ok

\* From here on every poll finds the same process list, without the name.
AbsentFromNowOn ==
  /\ Len(samples) > MaxPolls
  /\ system.first = 0

\* From here on every poll finds the same process list, with the name under
\* one pid.
PresentFromNowOn ==
  /\ Len(samples) > MaxPolls
  /\ system.first # 0

\* The pid the watcher held at the last poll, if any, was gone from the
\* process list.
HeldPidGone == old_state = NotRunning \/ old_state.pid \notin system.alive

\* Main is blocked in recv() with nothing buffered and the last call made is
\* of the given kind.
Settled(kind) ==
  /\ pc = "recv"
  /\ queue = <<>>
  /\ cmds # <<>>
  /\ cmds[Len(cmds)].kind = kind

\* The run ended by a failed call or by the death of the watcher.
Ended == pc = "panicked"

\* C19 as stated: with both threads running, calls succeeding and the
\* watcher alive, a process absent at every poll from some point on leads to
\* a last call turn-off with no turn-on after it, and a process present under
\* an unchanging pid leads to a last call turn-on with no turn-off after it.
C19_Converges ==
  /\ AbsentFromNowOn ~> [](Settled("Off") \/ Ended)
  /\ PresentFromNowOn ~> [](Settled("On") \/ Ended)

\* C19 amended: the absent half holds when, in addition, the pid the watcher
\* holds is gone from the process list (it has not been taken over by another
\* process); the present half holds as stated.
C19_ConvergesWhenHeldPidGone ==
  /\ (AbsentFromNowOn /\ HeldPidGone) ~> [](Settled("Off") \/ Ended)
  /\ PresentFromNowOn ~> [](Settled("On") \/ Ended)

\* The process went away for good, the wait ran out, and the turn-off call
\* is the last one made.
C19_Witness ==
  /\ AbsentFromNowOn
  /\ HeldPidGone
  /\ Settled("Off")
  /\ cmds[Len(cmds)].cause = "timeout"
  /\ wpc # "dead"

\* C20 as stated: every turn-off call follows an initial NotRunning message,
\* a NotRunning message received inside a wait, or a wait that lasted the
\* full delay without a message.
C20_TurnOffCauses ==
  \A k \in 1..Len(cmds) :
    cmds[k].kind = "Off" =>
      \/ /\ cmds[k].cause = "main"
         /\ consumed[cmds[k].ev].initial
         /\ consumed[cmds[k].ev].state = NotRunning
      \/ /\ cmds[k].cause = "wait_event"
         /\ consumed[cmds[k].ev].state = NotRunning
      \/ /\ cmds[k].cause \in {"timeout", "disconnected"}
         /\ cmds[k].waited >= delay

====
